---- MODULE Spec2Model ----
(***************************************************************************)
(* Indexation engine of indexation_app.py: the monthly calculators         *)
(* (compute_period_exact, compute_indexation_monthly), the period          *)
(* segmenter (compute_debt_periods) and the batch driver                   *)
(* (process_workbook).                                                     *)
(*                                                                         *)
(* Money, CPI values and factors are Python decimal.Decimal values.  They  *)
(* are modelled as records [neg, c, e] standing for (-1)^neg * c * 10^e,   *)
(* with the coefficient c an unbounded natural (a little-endian sequence   *)
(* of base-10^4 limbs) and every arithmetic result rounded to the default  *)
(* context (28 significant digits, ROUND_HALF_EVEN), as the decimal module *)
(* does.  Dates are triples <<year, month, day>>.                          *)
(***************************************************************************)
EXTENDS Integers, Sequences, FiniteSets, TLC

\* ------------------------------------------------------------------------
\*  Unbounded naturals (coefficients of Decimal values)
\* ------------------------------------------------------------------------

RECURSIVE Pow10(_)
Pow10(k) == IF k = 0 THEN 1 ELSE 10 * Pow10(k - 1)

Base == Pow10(4)

Min(a, b) == IF a <= b THEN a ELSE b

RECURSIVE Trim(_)
Trim(a) ==
    IF Len(a) > 0 /\ a[Len(a)] = 0 THEN Trim(SubSeq(a, 1, Len(a) - 1)) ELSE a

RECURSIVE FromNat(_)
FromNat(n) == IF n = 0 THEN <<>> ELSE <<n % Base>> \o FromNat(n \div Base)

Limb(a, i) == IF i >= 1 /\ i <= Len(a) THEN a[i] ELSE 0

RECURSIVE AddC(_, _, _, _)
AddC(a, b, i, carry) ==
    IF i > Len(a) /\ i > Len(b)
    THEN (IF carry = 0 THEN <<>> ELSE <<carry>>)
    ELSE LET t == Limb(a, i) + Limb(b, i) + carry
         IN  <<t % Base>> \o AddC(a, b, i + 1, t \div Base)

BAdd(a, b) == AddC(a, b, 1, 0)

RECURSIVE SubC(_, _, _, _)
SubC(a, b, i, borrow) ==
    IF i > Len(a)
    THEN <<>>
    ELSE LET t == Limb(a, i) - Limb(b, i) - borrow
         IN  IF t < 0 THEN <<t + Base>> \o SubC(a, b, i + 1, 1)
                      ELSE <<t>> \o SubC(a, b, i + 1, 0)

\* a - b for a >= b
BSub(a, b) == Trim(SubC(a, b, 1, 0))

RECURSIVE CmpFrom(_, _, _)
CmpFrom(a, b, i) ==
    IF i = 0 THEN 0
    ELSE IF a[i] < b[i] THEN -1
    ELSE IF a[i] > b[i] THEN 1
    ELSE CmpFrom(a, b, i - 1)

\* -1, 0, 1 as a < b, a = b, a > b
BCmp(a, b) ==
    IF Len(a) # Len(b) THEN (IF Len(a) < Len(b) THEN -1 ELSE 1)
    ELSE CmpFrom(a, b, Len(a))

RECURSIVE MulSmallC(_, _, _, _)
MulSmallC(a, s, i, carry) ==
    IF i > Len(a)
    THEN (IF carry = 0 THEN <<>> ELSE <<carry>>)
    ELSE LET t == a[i] * s + carry
         IN  <<t % Base>> \o MulSmallC(a, s, i + 1, t \div Base)

\* a * s for 0 <= s < Base
BMulSmall(a, s) == IF s = 0 THEN <<>> ELSE MulSmallC(a, s, 1, 0)

RECURSIVE Zeros(_)
Zeros(n) == IF n <= 0 THEN <<>> ELSE <<0>> \o Zeros(n - 1)

ShiftLimbs(a, n) == IF Len(a) = 0 THEN <<>> ELSE Zeros(n) \o a

RECURSIVE MulAcc(_, _, _)
MulAcc(a, b, i) ==
    IF i > Len(a) THEN <<>>
    ELSE BAdd(ShiftLimbs(BMulSmall(b, a[i]), i - 1), MulAcc(a, b, i + 1))

BMul(a, b) == MulAcc(a, b, 1)

\* The quotient's limbs above limb i (rest[1]) with limb i's digit q put below.
DivStep(rest, q) == <<Append(rest[1], q), rest[2]>>

RECURSIVE DivSmallFrom(_, _, _, _)
DivSmallFrom(a, d, i, r) ==
    IF i = 0 THEN <<<<>>, r>>
    ELSE DivStep(DivSmallFrom(a, d, i - 1, (r * Base + a[i]) % d),
                 (r * Base + a[i]) \div d)

TrimQuot(qr) == <<Trim(qr[1]), qr[2]>>

\* <<a div d, a mod d>> for 1 <= d <= Base
BDivSmall(a, d) == TrimQuot(DivSmallFrom(a, d, Len(a), 0))

DigitsOfLimb(x) ==
    IF x >= 1000 THEN 4 ELSE IF x >= 100 THEN 3 ELSE IF x >= 10 THEN 2 ELSE 1

NumDigits(a) ==
    IF Len(a) = 0 THEN 0 ELSE 4 * (Len(a) - 1) + DigitsOfLimb(a[Len(a)])

\* a * 10^k
MulPow10(a, k) == BMulSmall(ShiftLimbs(a, k \div 4), Pow10(k % 4))

LowZero(a, n) == \A i \in 1..Min(n, Len(a)) : a[i] = 0

\* Where a dropped part lies, t being its leading piece and lz telling that
\* the rest of it is zero: 0 nothing dropped but zeros, 1 below one half,
\* 2 exactly one half, 3 above one half.
DropCat(t, half, lz) ==
    IF t > half THEN 3
    ELSE IF t = half THEN (IF lz THEN 2 ELSE 3)
    ELSE IF t = 0 /\ lz THEN 0 ELSE 1

DropSplit(qr, half, lz) == <<qr[1], DropCat(qr[2], half, lz)>>

HighLimbs(a, L) == IF L >= Len(a) THEN <<>> ELSE SubSeq(a, L + 1, Len(a))

\* a with its k >= 1 lowest decimal digits dropped: <<a div 10^k, cat>>, cat
\* the category (DropCat) of the dropped part.
DropDigits(a, k) ==
    IF k % 4 > 0
    THEN DropSplit(BDivSmall(HighLimbs(a, k \div 4), Pow10(k % 4)),
                   5 * Pow10((k % 4) - 1), LowZero(a, k \div 4))
    ELSE DropSplit(<<HighLimbs(a, k \div 4), Limb(a, k \div 4)>>,
                   Base \div 2, LowZero(a, (k \div 4) - 1))

IsOdd(a) == Limb(a, 1) % 2 = 1

\* The kept coefficient q after rounding, for a dropped part of category cat.
RoundHalfEven(q, cat) ==
    IF cat = 3 \/ (cat = 2 /\ IsOdd(q)) THEN BAdd(q, <<1>>) ELSE q

RoundHalfUp(q, cat) == IF cat >= 2 THEN BAdd(q, <<1>>) ELSE q

\* ------------------------------------------------------------------------
\*  decimal.Decimal under the default context
\* ------------------------------------------------------------------------

\* Significant digits of the default decimal context (getcontext().prec).
Prec == 28

Dec(neg, c, e) == [neg |-> neg /\ Len(c) > 0, c |-> c, e |-> e]

\* Decimal(str(n)) scaled by 10^e, for an integer n
DInt(n, e) == Dec(n < 0, FromNat(IF n < 0 THEN -n ELSE n), e)

DZero2 == DInt(0, -2)

\* Decimal(str(x)) for a number cell x = n * 10^e (e <= -1) read as a float:
\* str gives the shortest decimal that reads back as x, with at least one
\* digit after the point ("40.0", "99.5", "100.84").
RECURSIVE DecimalStr(_, _)
DecimalStr(n, e) ==
    IF e < -1 /\ n % 10 = 0 THEN DecimalStr(n \div 10, e + 1) ELSE DInt(n, e)

DIsZero(x) == Len(x.c) = 0

\* x <= 0, x > 0
DLeZero(x) == x.neg \/ DIsZero(x)
DGtZero(x) == ~DLeZero(x)

\* The category of a dropped part when the exact result has, besides, a
\* non-zero part below it (sticky).
StickyCat(cat, sticky) ==
    IF sticky THEN (IF cat = 0 THEN 1 ELSE IF cat = 2 THEN 3 ELSE cat)
    ELSE cat

DRoundDrop(neg, dq, e, sticky) ==
    Dec(neg, RoundHalfEven(dq[1], StickyCat(dq[2], sticky)), e)

\* The context's rounding of an exact result to Prec digits (ROUND_HALF_EVEN);
\* sticky says that the exact result has a non-zero part below c's last digit.
DRoundSticky(neg, c, e, sticky) ==
    IF NumDigits(c) <= Prec
    THEN Dec(neg, c, e)
    ELSE DRoundDrop(neg, DropDigits(c, NumDigits(c) - Prec),
                    e + NumDigits(c) - Prec, sticky)

DRound(neg, c, e) == DRoundSticky(neg, c, e, FALSE)

DNeg(x) == Dec(~x.neg, x.c, x.e)

\* <<sign, magnitude>> of (-1)^xneg * cx + (-1)^yneg * cy
SignedSum(xneg, cx, yneg, cy) ==
    IF xneg = yneg THEN <<xneg, BAdd(cx, cy)>>
    ELSE IF BCmp(cx, cy) >= 0 THEN <<xneg, BSub(cx, cy)>>
    ELSE <<yneg, BSub(cy, cx)>>

DRoundPair(nc, e) == DRound(nc[1], nc[2], e)

\* x + y with both coefficients brought to exponent e = min(x.e, y.e)
DAddAt(x, y, e) ==
    DRoundPair(SignedSum(x.neg, MulPow10(x.c, x.e - e),
                         y.neg, MulPow10(y.c, y.e - e)), e)

\* x + y
DAdd(x, y) == IF x.e <= y.e THEN DAddAt(x, y, x.e) ELSE DAddAt(x, y, y.e)

\* x - y
DSub(x, y) == DAdd(x, DNeg(y))

\* x * y
DMul(x, y) ==
    IF DIsZero(x) \/ DIsZero(y) THEN Dec(FALSE, <<>>, x.e + y.e)
    ELSE DRound(x.neg # y.neg, BMul(x.c, y.c), x.e + y.e)

DDivRound(neg, qr, e) == DRoundSticky(neg, qr[1], e, qr[2] # 0)

\* x / Decimal(d) for an integer 1 <= d <= 10^4 (every divisor of the program
\* is a number of days or 100), correctly rounded to Prec digits.
DDivInt(x, d) ==
    IF DIsZero(x) THEN x
    ELSE DDivRound(x.neg, BDivSmall(MulPow10(x.c, Prec + 5), d),
                   x.e - (Prec + 5))

SignedCmp(xneg, cx, yneg, cy) ==
    IF xneg # yneg THEN (IF xneg THEN -1 ELSE 1)
    ELSE IF xneg THEN BCmp(cy, cx) ELSE BCmp(cx, cy)

DCmpAt(x, y, e) ==
    SignedCmp(x.neg, MulPow10(x.c, x.e - e), y.neg, MulPow10(y.c, y.e - e))

\* -1, 0, 1 as x < y, x = y, x > y (by value)
DCmp(x, y) == IF x.e <= y.e THEN DCmpAt(x, y, x.e) ELSE DCmpAt(x, y, y.e)

DEq(x, y) == DCmp(x, y) = 0

QuantizeDrop(neg, dq, e, halfUp) ==
    Dec(neg,
        IF halfUp THEN RoundHalfUp(dq[1], dq[2])
                  ELSE RoundHalfEven(dq[1], dq[2]),
        e)

\* x.quantize(Decimal(10)^e, rounding = ROUND_HALF_UP if halfUp else the
\* context's ROUND_HALF_EVEN)
DQuantize(x, e, halfUp) ==
    IF x.e >= e
    THEN Dec(x.neg, MulPow10(x.c, x.e - e), e)
    ELSE QuantizeDrop(x.neg, DropDigits(x.c, e - x.e), e, halfUp)

\* ------------------------------------------------------------------------
\*  Calendar (datetime.date, calendar.monthrange)
\* ------------------------------------------------------------------------

IsLeap(year) == (year % 4 = 0 /\ year % 100 # 0) \/ year % 400 = 0

\* calendar.monthrange(year, month)[1]
days_in_month(year, month) ==
    IF month = 2 THEN (IF IsLeap(year) THEN 29 ELSE 28)
    ELSE IF month \in {4, 6, 9, 11} THEN 30 ELSE 31

\* The next month number without the roll over of the year (a variant the
\* month-walk claim must reject).
next_month_same_year(year, month) == <<year, month + 1>>

next_month(year, month) ==
    IF month = 12 THEN <<year + 1, 1>> ELSE <<year, month + 1>>

\* d1 < d2, d1 <= d2 on dates <<year, month, day>>
DateLt(d1, d2) ==
    \/ d1[1] < d2[1]
    \/ d1[1] = d2[1] /\ d1[2] < d2[2]
    \/ d1[1] = d2[1] /\ d1[2] = d2[2] /\ d1[3] < d2[3]

DateLe(d1, d2) == d1 = d2 \/ DateLt(d1, d2)

DateMin(d1, d2) == IF DateLe(d1, d2) THEN d1 ELSE d2

\* The day itself (a variant the contiguity claim must reject).
SameDay(d) == d

\* d + dt.timedelta(days=1)
NextDay(d) ==
    IF d[3] < days_in_month(d[1], d[2]) THEN <<d[1], d[2], d[3] + 1>>
    ELSE LET ym == next_month(d[1], d[2]) IN <<ym[1], ym[2], 1>>

\* (year, month) keys compared chronologically
MonthLt(k1, k2) == k1[1] < k2[1] \/ (k1[1] = k2[1] /\ k1[2] < k2[2])
MonthOf(d) == <<d[1], d[2]>>

\* ------------------------------------------------------------------------
\*  compute_period_exact: the month-by-month calculator with a breakdown
\* ------------------------------------------------------------------------

DOne1 == DInt(10, -1)
DOne == DInt(1, 0)
DHundred == DInt(100, 0)

\* (cpi_value / Decimal("100")).quantize(Decimal("0.0001"))
monthly_factor(cpi_value) == DQuantize(DDivInt(cpi_value, 100), -4, FALSE)

\* Decimal("1.0") + (factor_full - Decimal("1.0")) * prop
EffectiveFactor(factor_full, prop) ==
    DAdd(DOne1, DMul(DSub(factor_full, DOne1), prop))

\* The product left unrounded (a variant the rounding claim must reject).
NewAmountUnrounded(curr_amount, effective_factor) ==
    DMul(curr_amount, effective_factor)

\* (curr_amount * effective_factor).quantize(Decimal("0.01"), ROUND_HALF_UP)
NewAmount(curr_amount, effective_factor) ==
    DQuantize(DMul(curr_amount, effective_factor), -2, TRUE)

\* The last day of the month taken whatever end_date is (a variant the
\* day-sum claim must reject).
ExactEndDayOfMonth(ym, e) == days_in_month(ym[1], ym[2])

ExactStartDay(ym, s) == IF ym = MonthOf(s) THEN s[3] ELSE 1
ExactEndDay(ym, e) == IF ym = MonthOf(e) THEN e[3]
                        ELSE days_in_month(ym[1], ym[2])

\* The days without the day of the start counted (a variant the day-count
\* claims must reject).
ExactDaysExclusive(ym, s, e) == ExactEndDay(ym, e) - ExactStartDay(ym, s)

\* days_in_period = (end_day - start_day).days + 1
ExactDays(ym, s, e) == ExactEndDay(ym, e) - ExactStartDay(ym, s) + 1

\* prop = Decimal(days_in_period) / Decimal(dim)
ExactProp(ym, s, e) ==
    DDivInt(DInt(ExactDays(ym, s, e), 0), days_in_month(ym[1], ym[2]))

\* The effective factor of month ym, whose CPI value is cpi.
ExactFactor(ym, s, e, cpi) ==
    EffectiveFactor(monthly_factor(cpi), ExactProp(ym, s, e))

\* The dictionary one pass of the loop body appends to results, its
\* effective factor being eff.
SliceOf(ym, curr, s, e, cpi, eff) ==
    [year |-> ym[1], month |-> ym[2], days |-> ExactDays(ym, s, e),
     total_days |-> days_in_month(ym[1], ym[2]), cpi |-> cpi,
     factor |-> eff, increment |-> DSub(NewAmount(curr, eff), curr)]

ExactSlice(ym, curr, s, e, cpi) ==
    SliceOf(ym, curr, s, e, cpi, ExactFactor(ym, s, e, cpi))

\* ------------------------------------------------------------------------
\*  compute_indexation_monthly / compute_period_indexation: the calculator
\*  the segmenter calls (one rounding, of the final product)
\* ------------------------------------------------------------------------

\* Decimal("1") + ((cpi_value - Decimal("100")) / Decimal("100")) * prop
compute_month_factor(cpi_value, prop) ==
    DAdd(DOne, DMul(DDivInt(DSub(cpi_value, DHundred), 100), prop))

\* The days counted of month ym in [s, e] by the first three branches: the
\* month of both dates, of start_date, of end_date.
MonthlyDays(ym, s, e) ==
    IF ym = MonthOf(s) /\ ym = MonthOf(e) THEN e[3] - s[3] + 1
    ELSE IF ym = MonthOf(s) THEN days_in_month(ym[1], ym[2]) - s[3] + 1
    ELSE e[3]

\* The day fraction of month ym in [s, e]: Decimal(days) / Decimal(dim) in
\* the first three branches, Decimal("1") in the fourth.
MonthlyProp(ym, s, e) ==
    IF ym # MonthOf(s) /\ ym # MonthOf(e) THEN DInt(1, 0)
    ELSE DDivInt(DInt(MonthlyDays(ym, s, e), 0), days_in_month(ym[1], ym[2]))

\* The loop breaks after the month of end_date (first or third branch).
MonthlyBreaks(ym, s, e) == ym = MonthOf(e)

\* The difference taken the other way round (a variant the sign claim must
\* reject).
MonthlyResultNegated(amount, total_factor) ==
    DQuantize(DSub(amount, DMul(amount, total_factor)), -2, TRUE)

\* (amount * total_factor - amount).quantize(Decimal("0.01"), ROUND_HALF_UP)
MonthlyResult(amount, total_factor) ==
    DQuantize(DSub(DMul(amount, total_factor), amount), -2, TRUE)

\* The whole loop from month ym on: [ok, value] or [ok = FALSE, key] when
\* cpi_map[(y, m)] raises KeyError.  MonthlyNext is the end of a pass, tf
\* being total_factor after it.
RECURSIVE MonthlyLoop(_, _, _, _, _, _)
MonthlyNext(amount, s, e, cpi_map, ym, tf) ==
    IF MonthlyBreaks(ym, s, e)
    THEN [ok |-> TRUE, key |-> ym, value |-> MonthlyResult(amount, tf)]
    ELSE MonthlyLoop(amount, s, e, cpi_map, next_month(ym[1], ym[2]), tf)

MonthlyLoop(amount, s, e, cpi_map, ym, total_factor) ==
    IF ym \notin DOMAIN cpi_map
    THEN [ok |-> FALSE, key |-> ym, value |-> DZero2]
    ELSE MonthlyNext(amount, s, e, cpi_map, ym,
             DMul(total_factor,
                  compute_month_factor(cpi_map[ym], MonthlyProp(ym, s, e))))

compute_indexation_monthly(amount, s, e, cpi_map) ==
    MonthlyLoop(amount, s, e, cpi_map, MonthOf(s), DOne1)

compute_period_indexation(amount, s, e, cpi_map) ==
    IF DLeZero(amount) \/ DateLt(e, s)
    THEN [ok |-> TRUE, key |-> <<0, 0>>, value |-> DZero2]
    ELSE compute_indexation_monthly(amount, s, e, cpi_map)

\* compute_period_exact as a function of its arguments: [ok, total, results]
\* or [ok = FALSE, key].  ExactNext is the end of a pass, sl being the
\* dictionary it appended.
RECURSIVE ExactLoop(_, _, _, _, _, _, _)
ExactNext(s, e, cpi_map, ym, curr, total, results, sl) ==
    IF ym = MonthOf(e)
    THEN [ok |-> TRUE, key |-> ym, total |-> DAdd(total, sl.increment),
          results |-> Append(results, sl)]
    ELSE ExactLoop(s, e, cpi_map, next_month(ym[1], ym[2]),
                   NewAmount(curr, sl.factor), DAdd(total, sl.increment),
                   Append(results, sl))

ExactLoop(s, e, cpi_map, ym, curr, total, results) ==
    IF ym \notin DOMAIN cpi_map
    THEN [ok |-> FALSE, key |-> ym, total |-> DZero2, results |-> <<>>]
    ELSE ExactNext(s, e, cpi_map, ym, curr, total, results,
                   ExactSlice(ym, curr, s, e, cpi_map[ym]))

compute_period_exact(amount, s, e, cpi_map) ==
    IF DLeZero(amount) \/ DateLt(e, s)
    THEN [ok |-> TRUE, key |-> <<0, 0>>, total |-> DZero2, results |-> <<>>]
    ELSE ExactLoop(s, e, cpi_map, MonthOf(s), amount, DZero2, <<>>)

\* ------------------------------------------------------------------------
\*  compute_debt_periods: the period segmenter
\* ------------------------------------------------------------------------

\* payment_date of a period without a payment (None)
NoDate == <<0, 0, 0>>

\* A row of the payments sheet is [reg, date, amount], amount the cell's
\* number in hundredths; Decimal(str(row["Сумма платежа"])) is its Decimal.
PayAmount(row) == DecimalStr(row.amount, -2)

\* The filters without the amount test (a variant the filtering claim must
\* reject).
QualifiesAnyAmount(row, reg, cutoff) ==
    row.reg = reg /\ DateLe(row.date, cutoff)

\* The filters without the registration number test (a variant the
\* independence claim must reject).
QualifiesAnyReg(row, reg, cutoff) ==
    DateLe(row.date, cutoff) /\ row.amount > 0

\* The rows kept by the three filters: registration number, date <= cutoff,
\* amount > 0.
Qualifies(row, reg_num, cutoff_date) ==
    /\ row.reg = reg_num
    /\ DateLe(row.date, cutoff_date)
    /\ row.amount > 0

\* pays after sort_values("date"): the kept rows in ascending date order.  The
\* sort is pandas' default quicksort, which is not stable: rows of one date
\* may come out in any order.
SortedPays(payments_df, reg_num, cutoff_date) ==
    LET Q == {i \in 1..Len(payments_df) :
                 Qualifies(payments_df[i], reg_num, cutoff_date)}
        n == Cardinality(Q)
        Orders == {f \in [1..n -> Q] :
                     \A i, j \in 1..n :
                        i < j => /\ f[i] # f[j]
                                 /\ DateLe(payments_df[f[i]].date,
                                           payments_df[f[j]].date)}
    IN  {[i \in 1..n |-> payments_df[f[i]]] : f \in Orders}

Period(ps, pe, before, pdate, pamount, after, ind) ==
    [period_start |-> ps, period_end |-> pe, debt_before |-> before,
     payment_date |-> pdate, payment_amount |-> pamount,
     debt_after_payment |-> after, indexation |-> ind]

\* period_end = min(pay_date, cutoff_date)
PayPeriodEnd(pay_date, cutoff_date) == DateMin(pay_date, cutoff_date)

\* The payment's period with the balance left as it was (a variant the
\* balance claim must reject).
PayPeriodDebtKept(row, rem, start, cutoff, ind) ==
    Period(start, PayPeriodEnd(row.date, cutoff), rem,
           row.date, PayAmount(row), rem, ind)

\* The period one pass of the payment loop appends, given the indexation.
PayPeriod(row, remaining, current_start, cutoff_date, ind) ==
    Period(current_start, PayPeriodEnd(row.date, cutoff_date), remaining,
           row.date, PayAmount(row), DSub(remaining, PayAmount(row)), ind)

\* The period of a case without payments, and the tail period.
PlainPeriod(ps, pe, remaining, ind) ==
    Period(ps, pe, remaining, NoDate, DZero2, remaining, ind)

\* The tail emitted whatever remains (a variant the full-repayment claim must
\* reject).
TailAlways(rem, start, cutoff) == DateLe(start, cutoff)

\* No tail ever emitted (a variant the tail claim must reject).
TailNever(rem, start, cutoff) == FALSE

\* if remaining > 0 and current_start <= cutoff_date
TailDue(remaining, current_start, cutoff_date) ==
    DGtZero(remaining) /\ DateLe(current_start, cutoff_date)

\* ------------------------------------------------------------------------
\*  State
\* ------------------------------------------------------------------------

VARIABLES
    cpi_map,         \* (year, month) -> Decimal, the loaded CPI table
    \* one call of a calculator: fn is the function called
    fn, amount, start_date, end_date,
    ym,              \* the loop's (y, m)
    curr_amount, total_increment, results,   \* compute_period_exact
    total_factor,                            \* compute_indexation_monthly
    cpc,             \* "call", "loop", "returned", "raised"
    cret,            \* the value returned
    cerr,            \* the key of the KeyError raised
    \* one call of compute_debt_periods
    reg_num, order_date, base_amount, payments_df, cutoff_date,
    pays, k,         \* the sorted rows and the index of the loop's row
    periods, remaining, current_start,
    pc,              \* "start", "nopay", "loop", "tail", "returned", "raised"
    err,             \* the key of the KeyError raised
    \* one call of process_workbook
    cpi_df, main_df,
    requested_cutoff,    \* process_workbook's own cutoff_date argument
    effective_cutoff,
    new_index_col, pdf_files,
    bi,              \* the index of the loop's row of main_df
    bpc              \* "start", "case", "in_case", "write", "returned", "raised"

calcVars == <<fn, amount, start_date, end_date, ym, curr_amount,
              total_increment, results, total_factor, cpc, cret, cerr>>
debtInputs == <<reg_num, order_date, base_amount, payments_df, cutoff_date>>
debtVars == <<reg_num, order_date, base_amount, payments_df, cutoff_date,
              pays, k, periods, remaining, current_start, pc, err>>
batchVars == <<cpi_df, main_df, requested_cutoff, effective_cutoff,
               new_index_col, pdf_files, bi, bpc>>
vars == <<cpi_map, calcVars, debtVars, batchVars>>

NoKey == <<0, 0>>

\* ------------------------------------------------------------------------
\*  Inputs
\* ------------------------------------------------------------------------

\* The months of the model's calendar window: NMonths months from WindowStart
\* (December, so that the window crosses a year's end).
WindowStart == <<2023, 12>>
NMonths == 2

RECURSIVE MonthAt(_)
MonthAt(i) ==
    IF i = 0 THEN WindowStart
    ELSE LET p == MonthAt(i - 1) IN next_month(p[1], p[2])

WindowMonths(n) == {MonthAt(i) : i \in 0..(n - 1)}

\* The days tried in a month: the first, one in the middle, the last.
SampleDays(m) == {1, 15, days_in_month(m[1], m[2])}

DatesIn(months) ==
    UNION {{<<m[1], m[2], d>> : d \in SampleDays(m)} : m \in months}

\* The 15th of each month of a set.
MidDates(months) == {<<m[1], m[2], 15>> : m \in months}

\* CPI values in thousandths of a percent: 100.84, 99.5 (deflation), 100.845.
CpiSeries == <<100840, 99500, 100845>>

\* Decimal(str(row["Индексы потребительских цен"]))
CpiValue(n) == DecimalStr(n, -3)

\* The table giving month MonthAt(i) the CPI value CpiSeries[i + shift], for
\* the months MonthAt(i), i in idx.
CpiTable(idx, shift) ==
    [m \in {MonthAt(i) : i \in idx} |->
        LET i == CHOOSE j \in idx : MonthAt(j) = m
        IN  CpiValue(CpiSeries[((i + shift) % Len(CpiSeries)) + 1])]

\* The tables tried: complete over n months, or with one month missing.
CpiTables(n, shifts) ==
    {CpiTable(0..(n - 1), sh) : sh \in shifts}
    \cup {CpiTable((0..(n - 1)) \ {i}, sh) : i \in 0..(n - 1), sh \in shifts}

\* The payment rows tried (amounts in hundredths) and the sheets built of
\* them: every sequence of at most MaxPays rows.
MaxPays == 2
PayAmounts == {5000, 10000}
BaseAmounts == {10000}
DebtRegs == {1}

PayRows == [reg : DebtRegs, date : DatesIn(WindowMonths(NMonths)),
            amount : PayAmounts]

RECURSIVE SeqsUpTo(_, _)
SeqsUpTo(S, n) ==
    IF n = 0 THEN {<<>>}
    ELSE LET shorter == SeqsUpTo(S, n - 1)
         IN  shorter \cup {Append(q, x) : q \in shorter, x \in S}

CalcIdle ==
    /\ fn = "none" /\ amount = DZero2
    /\ start_date = NoDate /\ end_date = NoDate
    /\ ym = NoKey /\ curr_amount = DZero2 /\ total_increment = DZero2
    /\ results = <<>> /\ total_factor = DOne1
    /\ cpc = "idle" /\ cret = DZero2 /\ cerr = NoKey

DebtIdle ==
    /\ reg_num = 0 /\ order_date = NoDate /\ base_amount = DZero2
    /\ payments_df = <<>> /\ cutoff_date = NoDate
    /\ pays = <<>> /\ k = 0 /\ periods = <<>>
    /\ remaining = DZero2 /\ current_start = NoDate
    /\ pc = "idle" /\ err = NoKey

BatchIdle ==
    /\ cpi_df = <<>> /\ main_df = <<>>
    /\ requested_cutoff = NoDate /\ effective_cutoff = NoDate
    /\ new_index_col = <<>> /\ pdf_files = <<>>
    /\ bi = 0 /\ bpc = "idle"

\* ------------------------------------------------------------------------
\*  compute_debt_periods, step by step
\* ------------------------------------------------------------------------

Init ==
    /\ cpi_map \in CpiTables(NMonths, {0})
    /\ reg_num \in DebtRegs
    /\ order_date \in DatesIn({WindowStart})
    /\ cutoff_date \in DatesIn(WindowMonths(NMonths))
    /\ base_amount \in {DecimalStr(b, -2) : b \in BaseAmounts}
    /\ payments_df \in SeqsUpTo(PayRows, MaxPays)
    /\ pays = <<>> /\ k = 0 /\ periods = <<>>
    /\ remaining = DZero2 /\ current_start = NoDate
    /\ pc = "start" /\ err = NoKey
    /\ CalcIdle
    /\ BatchIdle

\* The call started with the list of periods an earlier call left (a variant
\* the determinism claim must reject).
DebtStartStale ==
    /\ pc = "start"
    /\ pays' \in SortedPays(payments_df, reg_num, cutoff_date)
    /\ periods' = periods
    /\ remaining' = base_amount
    /\ current_start' = order_date
    /\ k' = 1
    /\ pc' = IF pays' = <<>> THEN "nopay" ELSE "loop"
    /\ UNCHANGED <<cpi_map, calcVars, batchVars, debtInputs, err>>

\* Lines 694-701: filter, sort, initialise.
DebtStart ==
    /\ pc = "start"
    /\ pays' \in SortedPays(payments_df, reg_num, cutoff_date)
    /\ periods' = <<>>
    /\ remaining' = base_amount
    /\ current_start' = order_date
    /\ k' = 1
    /\ pc' = IF pays' = <<>> THEN "nopay" ELSE "loop"
    /\ UNCHANGED <<cpi_map, calcVars, batchVars, debtInputs, err>>

\* The error swallowed and the periods so far returned (a variant the
\* propagation claim must reject).
DebtSwallow(key) ==
    /\ pc' = "returned"
    /\ UNCHANGED <<periods, remaining, current_start, k, err>>

\* raise KeyError(key) out of compute_debt_periods: nothing is returned.
DebtRaise(key) ==
    /\ pc' = "raised"
    /\ err' = key
    /\ UNCHANGED <<periods, remaining, current_start, k>>

\* The empty list returned for a case without payments (a variant the
\* no-payment claim must reject).
NoPaymentsNone(r) ==
    /\ pc' = "returned"
    /\ UNCHANGED <<periods, remaining, current_start, k, err>>

\* Lines 703-714: no payment, one period [order_date, cutoff_date] whose
\* indexation is r.
NoPaymentsDone(r) ==
    IF r.ok
    THEN /\ periods' = Append(periods,
                 PlainPeriod(order_date, cutoff_date, remaining, r.value))
         /\ pc' = "returned"
         /\ UNCHANGED <<remaining, current_start, k, err>>
    ELSE DebtRaise(r.key)

DebtNoPayments ==
    /\ pc = "nopay"
    /\ NoPaymentsDone(compute_period_indexation(remaining, order_date,
                                                cutoff_date, cpi_map))
    /\ UNCHANGED <<cpi_map, calcVars, batchVars, debtInputs, pays>>

\* The pass without the return of lines 736-737 (a variant the early-stop
\* claim must reject).
PaymentNoStop(row, r) ==
    IF r.ok
    THEN /\ periods' = Append(periods,
                 PayPeriod(row, remaining, current_start, cutoff_date, r.value))
         /\ remaining' = DSub(remaining, PayAmount(row))
         /\ current_start' = NextDay(row.date)
         /\ k' = k + 1
         /\ pc' = IF k = Len(pays) THEN "tail" ELSE "loop"
         /\ err' = err
    ELSE DebtRaise(r.key)

\* The pass with the payment not taken off the balance (a variant the
\* running-balance claim must reject).
PaymentBalanceKept(row, r) ==
    IF r.ok
    THEN /\ periods' = Append(periods,
                 PayPeriod(row, remaining, current_start, cutoff_date, r.value))
         /\ remaining' = remaining
         /\ current_start' = NextDay(row.date)
         /\ k' = k + 1
         /\ pc' = IF DateLt(cutoff_date, NextDay(row.date)) THEN "returned"
                  ELSE IF k = Len(pays) THEN "tail"
                  ELSE "loop"
         /\ err' = err
    ELSE DebtRaise(r.key)

\* Lines 716-737: one pass of the payment loop, for row pays[k], r being the
\* indexation of the period up to the payment.
PaymentDone(row, r) ==
    IF r.ok
    THEN /\ periods' = Append(periods,
                 PayPeriod(row, remaining, current_start, cutoff_date, r.value))
         /\ remaining' = DSub(remaining, PayAmount(row))
         /\ current_start' = NextDay(row.date)
         /\ k' = k + 1
         /\ pc' = IF DateLt(cutoff_date, NextDay(row.date)) THEN "returned"
                  ELSE IF k = Len(pays) THEN "tail"
                  ELSE "loop"
         /\ err' = err
    ELSE DebtRaise(r.key)

DebtPayment ==
    /\ pc = "loop"
    /\ PaymentDone(pays[k],
           compute_period_indexation(remaining, current_start,
               PayPeriodEnd(pays[k].date, cutoff_date), cpi_map))
    /\ UNCHANGED <<cpi_map, calcVars, batchVars, debtInputs, pays>>

\* Lines 739-751: the tail period, of indexation r, and the return.
TailDone(r) ==
    IF r.ok
    THEN /\ periods' = Append(periods,
                 PlainPeriod(current_start, cutoff_date, remaining, r.value))
         /\ pc' = "returned"
         /\ UNCHANGED <<remaining, current_start, k, err>>
    ELSE DebtRaise(r.key)

DebtTail ==
    /\ pc = "tail"
    /\ IF TailDue(remaining, current_start, cutoff_date)
       THEN TailDone(compute_period_indexation(remaining, current_start,
                                               cutoff_date, cpi_map))
       ELSE /\ pc' = "returned"
            /\ UNCHANGED <<periods, remaining, current_start, k, err>>
    /\ UNCHANGED <<cpi_map, calcVars, batchVars, debtInputs, pays>>

Next == DebtStart \/ DebtNoPayments \/ DebtPayment \/ DebtTail

Spec == Init /\ [][Next]_vars

\* ------------------------------------------------------------------------
\*  compute_debt_periods on sheets with rows the filters must drop
\* ------------------------------------------------------------------------

\* Rows of two registration numbers, with negative, zero and positive amounts
\* (in hundredths), dated in the middle of the window's months; the cut-off
\* on the first such day or at the window's end.
FilterRegs == {1, 2}
FilterAmounts == {-5000, 0, 5000}
FilterPayRows == [reg : FilterRegs, date : MidDates(WindowMonths(NMonths)),
                  amount : FilterAmounts]
FilterCutoffs ==
    MidDates({WindowStart})
    \cup {<<m[1], m[2], days_in_month(m[1], m[2])>> :
              m \in {MonthAt(NMonths - 1)}}

InitFilter ==
    /\ cpi_map = CpiTable(0..(NMonths - 1), 0)
    /\ reg_num \in DebtRegs
    /\ order_date \in MidDates({WindowStart})
    /\ cutoff_date \in FilterCutoffs
    /\ base_amount \in {DecimalStr(b, -2) : b \in BaseAmounts}
    /\ payments_df \in SeqsUpTo(FilterPayRows, MaxPays)
    /\ pays = <<>> /\ k = 0 /\ periods = <<>>
    /\ remaining = DZero2 /\ current_start = NoDate
    /\ pc = "start" /\ err = NoKey
    /\ CalcIdle
    /\ BatchIdle

SpecFilter == InitFilter /\ [][Next]_vars

\* ------------------------------------------------------------------------
\*  One call of a calculator, one loop pass per step
\* ------------------------------------------------------------------------

CalcMonths == 3

\* Amounts in hundredths: negative, zero, the smallest, one whose product
\* with 0.995 lies half-way between two hundredths, typical ones.
CalcAmounts == {-100, 0, 1, 100, 10000, 12345}

InitCalc ==
    /\ cpi_map \in CpiTables(CalcMonths, {0, 1}) \cup {CpiTable({}, 0)}
    /\ fn \in {"exact", "indexation"}
    /\ amount \in {DInt(a, -2) : a \in CalcAmounts}
    /\ start_date \in DatesIn(WindowMonths(CalcMonths))
    /\ end_date \in DatesIn(WindowMonths(CalcMonths))
    /\ ym = NoKey /\ curr_amount = DZero2 /\ total_increment = DZero2
    /\ results = <<>> /\ total_factor = DOne1
    /\ cpc = "call" /\ cret = DZero2 /\ cerr = NoKey
    /\ DebtIdle
    /\ BatchIdle

\* The guard without its date test (a variant the no-op claim must reject).
DegenerateAmountOnly(a, s, e) == DLeZero(a)

\* The guard both calculators start with (lines 131, 688).
Degenerate(a, s, e) == DLeZero(a) \/ DateLt(e, s)

\* cpi_map[(y, m)] raises KeyError out of the calculator.
CalcRaise ==
    /\ cpc' = "raised"
    /\ cerr' = ym
    /\ UNCHANGED <<ym, curr_amount, total_increment, results, total_factor,
                   cret>>

\* compute_period_exact, lines 131-140: the guard and the initialisation.
ExactCall ==
    /\ cpc = "call" /\ fn = "exact"
    /\ IF Degenerate(amount, start_date, end_date)
       THEN /\ cpc' = "returned"
            /\ cret' = DZero2
            /\ results' = <<>>
            /\ UNCHANGED <<ym, curr_amount, total_increment>>
       ELSE /\ cpc' = "loop"
            /\ results' = <<>>
            /\ curr_amount' = amount
            /\ ym' = MonthOf(start_date)
            /\ total_increment' = DZero2
            /\ cret' = cret
    /\ UNCHANGED <<cpi_map, fn, amount, start_date, end_date, total_factor,
                   cerr, debtVars, batchVars>>

\* The pass with the total assigned, not accumulated (a variant the
\* sum-of-increments claim must reject).
ExactPassDoneLast(sl) ==
    /\ results' = Append(results, sl)
    /\ total_increment' = sl.increment
    /\ curr_amount' = NewAmount(curr_amount, sl.factor)
    /\ IF ym = MonthOf(end_date)
       THEN /\ cpc' = "returned"
            /\ cret' = sl.increment
            /\ ym' = ym
       ELSE /\ cpc' = "loop"
            /\ cret' = cret
            /\ ym' = next_month(ym[1], ym[2])
    /\ UNCHANGED <<total_factor, cerr>>

\* Lines 145-176 after the lookup: sl is the dictionary appended.
ExactPassDone(sl) ==
    /\ results' = Append(results, sl)
    /\ total_increment' = DAdd(total_increment, sl.increment)
    /\ curr_amount' = NewAmount(curr_amount, sl.factor)
    /\ IF ym = MonthOf(end_date)
       THEN /\ cpc' = "returned"
            /\ cret' = DAdd(total_increment, sl.increment)
            /\ ym' = ym
       ELSE /\ cpc' = "loop"
            /\ cret' = cret
            /\ ym' = next_month(ym[1], ym[2])
    /\ UNCHANGED <<total_factor, cerr>>

\* compute_period_exact, lines 142-178: one pass of the loop.
ExactPass ==
    /\ cpc = "loop" /\ fn = "exact"
    /\ IF ym \in DOMAIN cpi_map
       THEN ExactPassDone(ExactSlice(ym, curr_amount, start_date, end_date,
                                     cpi_map[ym]))
       ELSE CalcRaise
    /\ UNCHANGED <<cpi_map, fn, amount, start_date, end_date, debtVars,
                   batchVars>>

\* compute_period_indexation, lines 688-690, and lines 656-658 of
\* compute_indexation_monthly: the guard and the initialisation.
MonthlyCall ==
    /\ cpc = "call" /\ fn = "indexation"
    /\ IF Degenerate(amount, start_date, end_date)
       THEN /\ cpc' = "returned"
            /\ cret' = DZero2
            /\ UNCHANGED <<ym, total_factor>>
       ELSE /\ cpc' = "loop"
            /\ ym' = MonthOf(start_date)
            /\ total_factor' = DOne1
            /\ cret' = cret
    /\ UNCHANGED <<cpi_map, fn, amount, start_date, end_date, curr_amount,
                   total_increment, results, cerr, debtVars, batchVars>>

\* Lines 664-684 after the lookup: tf is total_factor after the pass.
MonthlyPassDone(tf) ==
    /\ total_factor' = tf
    /\ IF MonthlyBreaks(ym, start_date, end_date)
       THEN /\ cpc' = "returned"
            /\ cret' = MonthlyResult(amount, tf)
            /\ ym' = ym
       ELSE /\ cpc' = "loop"
            /\ cret' = cret
            /\ ym' = next_month(ym[1], ym[2])
    /\ UNCHANGED <<curr_amount, total_increment, results, cerr>>

\* compute_indexation_monthly, lines 660-684: one pass of the loop.
MonthlyPass ==
    /\ cpc = "loop" /\ fn = "indexation"
    /\ IF ym \in DOMAIN cpi_map
       THEN MonthlyPassDone(
                DMul(total_factor,
                     compute_month_factor(cpi_map[ym],
                         MonthlyProp(ym, start_date, end_date))))
       ELSE CalcRaise
    /\ UNCHANGED <<cpi_map, fn, amount, start_date, end_date, debtVars,
                   batchVars>>

NextCalc == ExactCall \/ ExactPass \/ MonthlyCall \/ MonthlyPass

SpecCalc == InitCalc /\ [][NextCalc]_vars

\* ------------------------------------------------------------------------
\*  process_workbook: the batch driver
\* ------------------------------------------------------------------------

\* The sheets tried.  The CPI sheet has one row [year, month, cpi] per
\* month of a table; the main sheet at most MaxCases rows [reg, base, date];
\* the payments sheet at most MaxPays rows.
MaxCases == 2
Regs == {1, 2}
BatchPayAmounts == {5000}

RECURSIVE RowsOf(_, _)
RowsOf(table, months) ==
    IF months = {} THEN <<>>
    ELSE LET m == CHOOSE x \in months : \A z \in months : ~MonthLt(z, x)
         IN  <<[year |-> m[1], month |-> m[2], cpi |-> table[m]]>>
             \o RowsOf(table, months \ {m})

CpiSheets == {RowsOf(t, DOMAIN t) : t \in CpiTables(NMonths, {0})}

MainRows == [reg : Regs, base : BaseAmounts, date : MidDates({WindowStart})]

BatchPayRows == [reg : Regs, date : MidDates(WindowMonths(NMonths)),
                 amount : BatchPayAmounts]

InitBatch ==
    /\ cpi_df \in CpiSheets
    /\ main_df \in SeqsUpTo(MainRows, MaxCases)
    /\ payments_df \in SeqsUpTo(BatchPayRows, MaxPays)
    /\ requested_cutoff \in DatesIn(WindowMonths(NMonths + 1))
    /\ cpi_map = CpiTable({}, 0)
    /\ effective_cutoff = NoDate
    /\ new_index_col = <<>> /\ pdf_files = <<>>
    /\ bi = 0 /\ bpc = "start"
    /\ reg_num = 0 /\ order_date = NoDate /\ base_amount = DZero2
    /\ cutoff_date = NoDate
    /\ pays = <<>> /\ k = 0 /\ periods = <<>>
    /\ remaining = DZero2 /\ current_start = NoDate
    /\ pc = "idle" /\ err = NoKey
    /\ CalcIdle

\* load_cpi_from_sheet, lines 634-640: the dictionary of the sheet's rows.
load_cpi_from_sheet(df) ==
    [key \in {<<df[i].year, df[i].month>> : i \in DOMAIN df} |->
        LET i == CHOOSE j \in DOMAIN df :
                     /\ <<df[j].year, df[j].month>> = key
                     /\ \A l \in DOMAIN df :
                            <<df[l].year, df[l].month>> = key => l <= j
        IN  df[i].cpi]

\* max() of a non-empty set of integers
SetMax(S) == CHOOSE x \in S : \A z \in S : z <= x

\* Lines 888-890.
max_year(df) == SetMax({df[i].year : i \in DOMAIN df})
max_month(df) == SetMax({df[i].month : i \in DOMAIN df})
last_cpi_date(df) ==
    <<max_year(df), max_month(df), days_in_month(max_year(df), max_month(df))>>

\* The last period's indexation taken for the total (a variant the total
\* claim must reject).
LastIndexation(ps, n) ==
    IF n = 0 THEN DInt(0, 0) ELSE ps[n].indexation

\* sum(p["indexation"] for p in periods): 0 + p1 + p2 + ...
RECURSIVE SumIndexation(_, _)
SumIndexation(ps, n) ==
    IF n = 0 THEN DInt(0, 0)
    ELSE DAdd(SumIndexation(ps, n - 1), ps[n].indexation)

\* float(d) for a Decimal d of at most 15 significant digits: the double
\* nearest to d, which d's value determines and which str() reads back as
\* the shortest decimal of that value.  The double is written as that
\* decimal, [neg, c, e] with no trailing zero in c.
RECURSIVE FloatOf(_)
FloatOf(d) ==
    IF DIsZero(d) THEN Dec(FALSE, <<>>, 0)
    ELSE IF d.c[1] % 10 = 0
         THEN FloatOf(Dec(d.neg, BDivSmall(d.c, 10)[1], d.e + 1))
         ELSE d

\* Lines 882-896: read the sheets, fix the effective cut-off.
PWLoad ==
    /\ bpc = "start"
    /\ cpi_map' = load_cpi_from_sheet(cpi_df)
    /\ effective_cutoff' = DateMin(requested_cutoff, last_cpi_date(cpi_df))
    /\ new_index_col' = <<>>
    /\ pdf_files' = <<>>
    /\ bi' = 1
    /\ bpc' = IF main_df = <<>> THEN "write" ELSE "case"
    /\ UNCHANGED <<calcVars, debtVars, cpi_df, main_df, requested_cutoff>>

\* Lines 898-905: the row's case is handed to compute_debt_periods.
PWCase ==
    /\ bpc = "case"
    /\ reg_num' = main_df[bi].reg
    /\ base_amount' = DecimalStr(main_df[bi].base, -2)
    /\ order_date' = main_df[bi].date
    /\ cutoff_date' = effective_cutoff
    /\ pc' = "start"
    /\ bpc' = "in_case"
    /\ UNCHANGED <<cpi_map, calcVars, payments_df, pays, k, periods,
                   remaining, current_start, err, cpi_df, main_df,
                   requested_cutoff, effective_cutoff, new_index_col,
                   pdf_files, bi>>

\* Lines 907-913 with the case's total: the column's cell and the report.
CaseDone(total_indexation) ==
    /\ new_index_col' = Append(new_index_col, FloatOf(total_indexation))
    /\ pdf_files' = Append(pdf_files,
           [name |-> reg_num, total_indexation |-> total_indexation,
            periods |-> periods, cutoff_date |-> effective_cutoff])

PWCaseDone ==
    /\ bpc = "in_case" /\ pc = "returned"
    /\ CaseDone(SumIndexation(periods, Len(periods)))
    /\ bi' = bi + 1
    /\ bpc' = IF bi = Len(main_df) THEN "write" ELSE "case"
    /\ pc' = "idle"
    /\ UNCHANGED <<cpi_map, calcVars, debtInputs, pays, k, periods, remaining,
                   current_start, err, cpi_df, main_df, requested_cutoff,
                   effective_cutoff>>

\* The KeyError of a case leaves process_workbook: nothing is written.
PWRaise ==
    /\ bpc = "in_case" /\ pc = "raised"
    /\ bpc' = "raised"
    /\ UNCHANGED <<cpi_map, calcVars, debtVars, cpi_df, main_df,
                   requested_cutoff, effective_cutoff, new_index_col,
                   pdf_files, bi>>

\* Lines 915-932: the column is set, the workbook and the archive written.
PWReturn ==
    /\ bpc = "write"
    /\ bpc' = "returned"
    /\ UNCHANGED <<cpi_map, calcVars, debtVars, cpi_df, main_df,
                   requested_cutoff, effective_cutoff, new_index_col,
                   pdf_files, bi>>

NextBatch ==
    \/ PWLoad \/ PWCase \/ PWCaseDone \/ PWRaise \/ PWReturn
    \/ DebtStart \/ DebtNoPayments \/ DebtPayment \/ DebtTail

SpecBatch == InitBatch /\ [][NextBatch]_vars

\* ------------------------------------------------------------------------
\*  A call of a calculator or a call of compute_debt_periods
\* ------------------------------------------------------------------------

InitCalcOrDebt == InitCalc \/ Init

NextCalcOrDebt == NextCalc \/ Next

SpecCalcOrDebt == InitCalcOrDebt /\ [][NextCalcOrDebt]_vars

\* ------------------------------------------------------------------------
\*  Properties of the calculators (SpecCalc)
\* ------------------------------------------------------------------------

\* The running amount after the first i months of the breakdown: the initial
\* amount plus the increments so far.
RECURSIVE AmountAfter(_)
AmountAfter(i) ==
    IF i = 0 THEN amount
    ELSE DAdd(AmountAfter(i - 1), results[i].increment)

DAbs(x) == Dec(FALSE, x.c, x.e)

\* x is a whole number of hundredths
IsCents(x) == x.e >= -2 \/ DropDigits(x.c, (-2) - x.e)[2] = 0

\* d, a distance, is below 0.005, or is 0.005 with r the farther from zero
NearestUp(d, r, p) ==
    \/ DCmp(d, DInt(5, -3)) < 0
    \/ DCmp(d, DInt(5, -3)) = 0 /\ DCmp(DAbs(r), DAbs(p)) > 0

\* r is p rounded half-up to 2 decimal places
IsHalfUp2(r, p) == IsCents(r) /\ NearestUp(DAbs(DSub(r, p)), r, p)

\* C1: in compute_period_exact with amount > 0, start_date <= end_date and
\* every visited month in the table, the running amount after each visited
\* month is the half-up rounding to 2 places of the previous running amount
\* times the month's effective factor, the next month starts from that rounded
\* amount, and total_increment (the value returned) is the final rounded
\* amount minus the initial amount.
C1_RoundedEveryMonth ==
    (fn = "exact" /\ cpc \in {"loop", "returned", "raised"}
                  /\ DGtZero(amount) /\ DateLe(start_date, end_date))
    => /\ \A i \in 1..Len(results) :
              IsHalfUp2(AmountAfter(i),
                        DMul(AmountAfter(i - 1), results[i].factor))
       /\ curr_amount = AmountAfter(Len(results))
       /\ DEq(total_increment, DSub(curr_amount, amount))
       /\ cpc = "returned" => cret = total_increment

\* A call of compute_period_exact that returned after two months or more, in
\* one of which the product was not a whole number of hundredths.
C1_Witness ==
    /\ fn = "exact" /\ cpc = "returned" /\ Len(results) >= 2
    /\ \E i \in 1..Len(results) :
          ~IsCents(DMul(AmountAfter(i - 1), results[i].factor))

\* C4: compute_period_indexation and compute_period_exact, called with
\* amount <= 0 or start_date > end_date, return Decimal("0.00") (and an empty
\* breakdown) and raise nothing, whatever the CPI table holds.
C4_DegenerateIsZero ==
    (cpc # "call" /\ (DCmp(amount, DInt(0, 0)) <= 0
                         \/ DateLt(end_date, start_date)))
    => /\ cpc = "returned"
       /\ cret = DZero2
       /\ results = <<>>
       /\ cerr = NoKey

\* compute_period_exact has returned for a positive amount, start_date after
\* end_date and a CPI table without any entry.
C4_Witness ==
    /\ fn = "exact" /\ cpc = "returned"
    /\ DGtZero(amount) /\ DateLt(end_date, start_date)
    /\ DOMAIN cpi_map = {}

\* ------------------------------------------------------------------------
\*  Properties of compute_debt_periods (Spec)
\* ------------------------------------------------------------------------

Last(q) == q[Len(q)]

\* p's indexation is what compute_period_exact returned (r) for its amount,
\* dates and table.
AgreesWithExact(p, r) == r.ok /\ DEq(p.indexation, r.total)

\* C2: every period emitted with debt_before > 0 and period_start <=
\* period_end has as its indexation the total increment compute_period_exact
\* returns for the same amount, dates and CPI table.
C2_IndexationIsExact ==
    \A i \in 1..Len(periods) :
        (DGtZero(periods[i].debt_before)
            /\ DateLe(periods[i].period_start, periods[i].period_end))
        => AgreesWithExact(periods[i],
               compute_period_exact(periods[i].debt_before,
                   periods[i].period_start, periods[i].period_end, cpi_map))

\* The period the next step computes: whether one is due, its dates.
PendingDue ==
    \/ pc = "nopay"
    \/ pc = "loop"
    \/ pc = "tail" /\ DGtZero(remaining) /\ DateLe(current_start, cutoff_date)
PendingStart == IF pc = "nopay" THEN order_date ELSE current_start
PendingEnd ==
    IF pc = "loop" THEN DateMin(pays[k].date, cutoff_date) ELSE cutoff_date

\* The months from s's to e's that the CPI table lacks, and the first.
MissingIn(s, e) ==
    {m \in WindowMonths(NMonths + 2) :
        /\ ~MonthLt(m, MonthOf(s))
        /\ ~MonthLt(MonthOf(e), m)
        /\ m \notin DOMAIN cpi_map}
FirstMissing(s, e) ==
    CHOOSE m \in MissingIn(s, e) : \A z \in MissingIn(s, e) : ~MonthLt(z, m)

VisitsMissing ==
    /\ PendingDue
    /\ DGtZero(remaining)
    /\ DateLe(PendingStart, PendingEnd)
    /\ MissingIn(PendingStart, PendingEnd) # {}

\* C3: when the period being computed has amount > 0, start <= end and a
\* month absent from the CPI table, the step raises the error naming that
\* month (the first absent one reached) out of compute_debt_periods, appends
\* no period and returns nothing: once raised, the call takes no further
\* step, and an error only ever names an absent month.
C3_MissingMonthPropagates ==
    /\ [][VisitsMissing =>
            /\ pc' = "raised"
            /\ err' = FirstMissing(PendingStart, PendingEnd)
            /\ periods' = periods]_vars
    /\ [](pc = "raised" => (err \notin DOMAIN cpi_map /\ ~ENABLED Next))

\* The error was raised after a first period had been computed.
C3_Witness ==
    pc = "raised" /\ Len(periods) >= 1 /\ err \notin DOMAIN cpi_map

\* The sum of the qualifying payments dated d among the sheet's first n rows.
RECURSIVE SumOn(_, _)
SumOn(d, n) ==
    IF n = 0 THEN DInt(0, 0)
    ELSE IF Qualifies(payments_df[n], reg_num, cutoff_date)
            /\ payments_df[n].date = d
         THEN DAdd(SumOn(d, n - 1), PayAmount(payments_df[n]))
         ELSE SumOn(d, n - 1)

\* C5: in the list returned, each payment date has at most one period, and
\* that period's payment_amount is the sum of the date's qualifying payments.
C5_SameDateMerged ==
    pc = "returned" =>
        \A i \in 1..Len(periods) :
            periods[i].payment_date # NoDate =>
                /\ \A j \in 1..Len(periods) :
                       j # i => periods[j].payment_date # periods[i].payment_date
                /\ DEq(periods[i].payment_amount,
                       SumOn(periods[i].payment_date, Len(payments_df)))

\* b is the day after a
IsDayAfter(a, b) ==
    \/ /\ MonthOf(b) = MonthOf(a)
       /\ b[3] = a[3] + 1
       /\ b[3] <= days_in_month(a[1], a[2])
    \/ /\ MonthOf(b) = next_month(a[1], a[2])
       /\ b[3] = 1
       /\ a[3] = days_in_month(a[1], a[2])

\* The first period starts at order_date and every later one the day after
\* the end of the one before.
Chained ==
    /\ periods[1].period_start = order_date
    /\ \A i \in 2..Len(periods) :
          IsDayAfter(periods[i - 1].period_end, periods[i].period_start)

\* C6 as the specification states it: the list returned starts at
\* order_date, each later period starts the day after the previous end, and
\* the last period ends at cutoff_date.
C6_CoversToCutoff ==
    pc = "returned" =>
        /\ Len(periods) >= 1
        /\ Chained
        /\ Last(periods).period_end = cutoff_date

\* C6, corrected: the list returned starts at order_date, each later period
\* starts the day after the previous end, and the last period ends at
\* cutoff_date unless the payments have brought the remaining debt to zero or
\* below, when it ends on the last payment's date.
C6_CoversToCutoffOrRepayment ==
    pc = "returned" =>
        /\ Len(periods) >= 1
        /\ Chained
        /\ \/ Last(periods).period_end = cutoff_date
           \/ /\ DLeZero(remaining)
              /\ Last(periods).payment_date = Last(periods).period_end
              /\ Last(periods).payment_date = Last(pays).date

\* Two periods or more were returned, the last ending before cutoff_date.
C6_Witness ==
    /\ pc = "returned" /\ Len(periods) >= 2
    /\ DateLt(Last(periods).period_end, cutoff_date)

\* C7: every period emitted has period_start <= period_end.
C7_StartNotAfterEnd ==
    \A i \in 1..Len(periods) :
        DateLe(periods[i].period_start, periods[i].period_end)

\* C8: once a payment has brought the remaining debt to zero or below, no
\* step of compute_debt_periods emits a period.
C8_NothingAfterRepayment ==
    [][(k > 1 /\ DLeZero(remaining)) => periods' = periods]_vars

\* The sum of the qualifying payments among the sheet's first n rows.
RECURSIVE QualSum(_)
QualSum(n) ==
    IF n = 0 THEN DInt(0, 0)
    ELSE IF Qualifies(payments_df[n], reg_num, cutoff_date)
         THEN DAdd(QualSum(n - 1), PayAmount(payments_df[n]))
         ELSE QualSum(n - 1)

QualDates ==
    {payments_df[i].date : i \in {j \in 1..Len(payments_df) :
        Qualifies(payments_df[j], reg_num, cutoff_date)}}

\* The qualifying payments exist, all fall before cutoff_date and sum to
\* base_amount.
FullyRepaidBeforeCutoff ==
    /\ QualDates # {}
    /\ \A d \in QualDates : DateLt(d, cutoff_date)
    /\ DEq(QualSum(Len(payments_df)), base_amount)

\* C9: when the qualifying payments sum exactly to base_amount and all fall
\* before cutoff_date, the last period returned is a payment's period, ends
\* on the date of the payment that brings the balance to zero (the latest
\* payment date) and leaves a zero balance: no tail period follows it.
C9_EndsAtZeroingPayment ==
    (pc = "returned" /\ FullyRepaidBeforeCutoff) =>
        /\ Last(periods).payment_date # NoDate
        /\ Last(periods).period_end = Last(periods).payment_date
        /\ \A d \in QualDates : DateLe(d, Last(periods).period_end)
        /\ DIsZero(Last(periods).debt_after_payment)
        /\ Len(periods) = Len(pays)

\* Two payments on different dates repaid the debt before cutoff_date.
C9_Witness ==
    /\ pc = "returned" /\ FullyRepaidBeforeCutoff
    /\ Len(pays) = 2 /\ pays[1].date # pays[2].date

\* C11: every period emitted has debt_after_payment = debt_before -
\* payment_amount, payment_amount being 0 for a period without a payment
\* (payment_date None), and each period's debt_before is the balance the
\* period before it left.
C11_BalanceAfterPayment ==
    \A i \in 1..Len(periods) :
        /\ DEq(periods[i].debt_after_payment,
               DSub(periods[i].debt_before, periods[i].payment_amount))
        /\ periods[i].payment_date = NoDate => DIsZero(periods[i].payment_amount)
        /\ i > 1 => DEq(periods[i].debt_before,
                        periods[i - 1].debt_after_payment)

\* A payment's period and a tail period were returned.
C11_Witness ==
    /\ pc = "returned" /\ Len(periods) >= 2
    /\ periods[1].payment_date # NoDate
    /\ DGtZero(periods[1].payment_amount)
    /\ Last(periods).payment_date = NoDate

\* The periods without a payment emitted so far.
PlainPeriods == {i \in 1..Len(periods) : periods[i].payment_date = NoDate}

\* The list after the step is the list before it with one period added: the
\* period without a payment from current_start to cutoff_date on the
\* remaining balance.
TailAppended ==
    /\ Len(periods') = Len(periods) + 1
    /\ SubSeq(periods', 1, Len(periods)) = periods
    /\ Last(periods').period_start = current_start
    /\ Last(periods').period_end = cutoff_date
    /\ Last(periods').payment_date = NoDate
    /\ DIsZero(Last(periods').payment_amount)
    /\ Last(periods').debt_before = remaining
    /\ Last(periods').debt_after_payment = remaining
    /\ Last(periods').indexation =
          compute_period_indexation(remaining, current_start, cutoff_date,
                                    cpi_map).value

\* C18: the tail is decided once every qualifying payment has its period,
\* current_start being the day after the last payment; the step that returns
\* then adds exactly one period, from current_start to cutoff_date on the
\* remaining balance, when remaining > 0 and current_start <= cutoff_date, and
\* adds none otherwise; a list never holds more than one period without a
\* payment, and holds it last.
C18_TailRule ==
    /\ [](pc = "tail" =>
             /\ Len(periods) = Len(pays)
             /\ PlainPeriods = {}
             /\ IsDayAfter(Last(pays).date, current_start))
    /\ [](PlainPeriods \subseteq {Len(periods)})
    /\ [][(pc = "tail" /\ pc' = "returned") =>
             IF DGtZero(remaining) /\ DateLe(current_start, cutoff_date)
             THEN TailAppended
             ELSE periods' = periods]_vars

\* A payment left a balance, and the tail period, running into the next
\* month, was added to the payment's period.
C18_Witness ==
    /\ pc = "returned" /\ Len(periods) = 2
    /\ PlainPeriods = {2}
    /\ DGtZero(periods[2].debt_before)
    /\ MonthLt(MonthOf(periods[2].period_start), MonthOf(periods[2].period_end))
    /\ ~DIsZero(periods[2].indexation)

\* A payment has been processed and the day after it is past cutoff_date.
PastCutoff == k > 1 /\ DateLt(cutoff_date, current_start)

\* C19: as soon as current_start, the day after a processed payment, is
\* later than cutoff_date, the call returns: the list holds the periods of
\* the payments processed so far and nothing else (no period of a remaining
\* payment, no tail period), and no later step adds to it.
C19_StopsPastCutoff ==
    /\ [](PastCutoff =>
             /\ pc = "returned"
             /\ Len(periods) = k - 1
             /\ PlainPeriods = {}
             /\ Last(periods).payment_date = cutoff_date)
    /\ [][PastCutoff => periods' = periods]_vars

\* The first of two payments dated on cutoff_date stopped the iteration: the
\* second has no period.
C19_Witness ==
    /\ pc = "returned" /\ PastCutoff
    /\ Len(pays) = 2 /\ Len(periods) = 1

\* C25: every period emitted lies inside the computation window: it starts
\* on order_date or later and ends on cutoff_date or earlier.
C25_InsideWindow ==
    \A i \in 1..Len(periods) :
        /\ DateLe(order_date, periods[i].period_start)
        /\ DateLe(periods[i].period_end, cutoff_date)

\* The payment_amount of the first n periods, summed.
RECURSIVE PaidInPeriods(_)
PaidInPeriods(n) ==
    IF n = 0 THEN DInt(0, 0)
    ELSE DAdd(PaidInPeriods(n - 1), periods[n].payment_amount)

\* C26: in the list returned, the payment_amount of the periods sums to the
\* sum of the sheet's qualifying payments (registration number, date <=
\* cutoff_date, amount > 0): none is lost, none is counted twice.
C26_PaymentsConserved ==
    pc = "returned" =>
        DEq(PaidInPeriods(Len(periods)), QualSum(Len(payments_df)))

\* ------------------------------------------------------------------------
\*  Properties of process_workbook (SpecBatch)
\* ------------------------------------------------------------------------

\* The latest (year, month) among the CPI sheet's rows, and its last day.
LatestMonth(df) ==
    CHOOSE m \in {<<df[i].year, df[i].month>> : i \in DOMAIN df} :
        \A i \in DOMAIN df : ~MonthLt(m, <<df[i].year, df[i].month>>)
LastDayOf(m) == <<m[1], m[2], days_in_month(m[1], m[2])>>

\* C10: the effective cut-off process_workbook fixes, hands to every case
\* and returns is min(requested cut-off, last day of the latest (year, month)
\* of the CPI sheet), and no case's computation looks up a month after that
\* latest month.
C10_CutoffClampedToTable ==
    bpc # "start" =>
        /\ effective_cutoff =
               DateMin(requested_cutoff, LastDayOf(LatestMonth(cpi_df)))
        /\ bpc = "in_case" => cutoff_date = effective_cutoff
        /\ pc = "raised" => ~MonthLt(LatestMonth(cpi_df), err)

\* The sum of the increments of a breakdown's first n slices.
RECURSIVE SumIncrements(_, _)
SumIncrements(slices, n) ==
    IF n = 0 THEN DInt(0, -2)
    ELSE DAdd(SumIncrements(slices, n - 1), slices[n].increment)

\* p carries a monthly breakdown and its increments sum to p's indexation.
CarriesBreakdown(p) ==
    /\ "monthly" \in DOMAIN p
    /\ DEq(SumIncrements(p.monthly, Len(p.monthly)), p.indexation)

\* C12: every period process_workbook hands to the report generator carries
\* a monthly breakdown (one slice per visited month) whose increments sum to
\* the period's indexation.
C12_PeriodsCarryBreakdown ==
    \A i \in 1..Len(pdf_files) :
        \A j \in 1..Len(pdf_files[i].periods) :
            CarriesBreakdown(pdf_files[i].periods[j])

\* The periods handed over so far, of every case.
ReportedPeriods ==
    UNION {{pdf_files[i].periods[j] : j \in 1..Len(pdf_files[i].periods)} :
              i \in 1..Len(pdf_files)}

C14_ErrorKeepsOtherCases ==
    bpc = "raised" => Len(new_index_col) = 0

\* The only period returned is the period without a payment over
\* [order_date, cutoff_date] on base_amount.
OnePlainPeriod ==
    /\ Len(periods) = 1
    /\ periods[1].period_start = order_date
    /\ periods[1].period_end = cutoff_date
    /\ periods[1].payment_date = NoDate
    /\ DIsZero(periods[1].payment_amount)
    /\ DEq(periods[1].debt_before, base_amount)
    /\ DEq(periods[1].debt_after_payment, base_amount)

\* C15: a case without a qualifying payment gets exactly one period, from
\* order_date to cutoff_date, with no payment date, payment_amount 0,
\* debt_before = debt_after_payment = base_amount, and as its indexation what
\* the calculator (compute_period_indexation) returns for base_amount over
\* [order_date, cutoff_date].
C15_NoPaymentOnePeriod ==
    (pc = "returned" /\ QualDates = {}) =>
        /\ OnePlainPeriod
        /\ periods[1].indexation =
               compute_period_indexation(base_amount, order_date, cutoff_date,
                                         cpi_map).value

\* A case whose payment rows all fall after cutoff_date was returned with a
\* positive indexation.
C15_Witness ==
    /\ pc = "returned" /\ QualDates = {}
    /\ Len(payments_df) >= 1
    /\ DateLt(order_date, cutoff_date)
    /\ DGtZero(periods[1].indexation)

\* ------------------------------------------------------------------------
\*  Further properties of the calculators (SpecCalc)
\* ------------------------------------------------------------------------

\* The number of a calendar month, counted from year 0.
MonthIndex(m) == 12 * m[1] + (m[2] - 1)

\* The calendar months from s's to e's, both included.
SpanMonths(s, e) == MonthIndex(MonthOf(e)) - MonthIndex(MonthOf(s)) + 1

\* C16: compute_period_exact, returning for amount > 0 and start_date <=
\* end_date, gives a breakdown with exactly one slice per calendar month from
\* start_date's to end_date's, in chronological order, and a total that is
\* the sum of the slices' increments (0.00 and no slice for a degenerate
\* call).
C16_TotalIsSumOfSlices ==
    (fn = "exact" /\ cpc = "returned") =>
        /\ cret = SumIncrements(results, Len(results))
        /\ (DGtZero(amount) /\ DateLe(start_date, end_date)) =>
              /\ Len(results) = SpanMonths(start_date, end_date)
              /\ \A i \in 1..Len(results) :
                    /\ results[i].month \in 1..12
                    /\ MonthIndex(<<results[i].year, results[i].month>>)
                          = MonthIndex(MonthOf(start_date)) + (i - 1)

\* compute_period_exact returned for a span of three months with a full
\* month in the middle, across the year's end, every month with a non-zero
\* increment.
C16_Witness ==
    /\ fn = "exact" /\ cpc = "returned" /\ Len(results) = 3
    /\ results[1].year # results[3].year
    /\ results[2].days = results[2].total_days
    /\ \A i \in 1..3 : ~DIsZero(results[i].increment)

\* cpi_map has a value for every calendar month from s's to e's.
CpiCovers(s, e) ==
    \A y \in s[1]..e[1] : \A m \in 1..12 :
        (MonthIndex(MonthOf(s)) <= MonthIndex(<<y, m>>)
            /\ MonthIndex(<<y, m>>) <= MonthIndex(MonthOf(e)))
        => <<y, m>> \in DOMAIN cpi_map

\* An upper bound of the passes a call can still make: one per month from
\* the month visited to end_date's, one more before the guard, none once the
\* call has returned or raised.
PassesLeft ==
    IF cpc = "call"
    THEN (IF DateLe(start_date, end_date)
          THEN SpanMonths(start_date, end_date) ELSE 0) + 1
    ELSE IF cpc = "loop"
    THEN MonthIndex(MonthOf(end_date)) - MonthIndex(ym) + 1
    ELSE 0

\* C20: the month loop of a calculator starts at start_date's month; a pass
\* that finds its CPI value either is the pass of end_date's month and
\* returns, or moves to the next calendar month (the month number stays in
\* 1..12, December being followed by January of the next year) and loops;
\* the month visited is never before start_date's nor after end_date's; and
\* with a table covering the span no pass raises; and every step of a call
\* lowers the number of passes it can still make, which is never negative,
\* so that the walk ends, by returning when the table covers the span.
C20_MonthWalk ==
    /\ [][(cpc = "call" /\ cpc' = "loop") => ym' = MonthOf(start_date)]_vars
    /\ [](cpc = "loop" =>
             /\ ym[2] \in 1..12
             /\ MonthIndex(MonthOf(start_date)) <= MonthIndex(ym)
             /\ MonthIndex(ym) <= MonthIndex(MonthOf(end_date)))
    /\ [][(cpc = "loop" /\ cpc' # "raised") =>
             IF ym = MonthOf(end_date)
             THEN cpc' = "returned" /\ ym' = ym
             ELSE /\ cpc' = "loop"
                  /\ ym'[2] \in 1..12
                  /\ MonthIndex(ym') = MonthIndex(ym) + 1]_vars
    /\ [](CpiCovers(start_date, end_date) => cpc # "raised")
    /\ [][PassesLeft' < PassesLeft]_vars

\* compute_indexation_monthly returned a non-zero amount after walking from
\* December 2023 over January to February 2024.
C20_Witness ==
    /\ fn = "indexation" /\ cpc = "returned"
    /\ MonthOf(start_date) = <<2023, 12>> /\ MonthOf(end_date) = <<2024, 2>>
    /\ ym = <<2024, 2>>
    /\ ~DIsZero(cret)

\* ------------------------------------------------------------------------
\*  Properties of the filters and the sort (SpecFilter)
\* ------------------------------------------------------------------------

\* How many times row occurs in the sequence q.
Occurrences(q, row) == Cardinality({i \in 1..Len(q) : q[i] = row})

\* The periods of a payment emitted so far.
PaymentPeriods == {i \in 1..Len(periods) : periods[i].payment_date # NoDate}

\* C17: once the rows are filtered and sorted, the rows the loop iterates
\* are exactly the sheet's rows of the given registration number dated <=
\* cutoff_date with an amount > 0 (each as often as the sheet has it, no
\* other row), in ascending date order whatever the sheet's order; the
\* payment periods emitted are the periods of the first of these rows, one
\* each, so their payment dates ascend.
C17_FilteredAndSorted ==
    pc \in {"nopay", "loop", "tail", "returned", "raised"} =>
        /\ \A row \in FilterPayRows :
              Occurrences(pays, row) =
                  IF row.reg = reg_num /\ DateLe(row.date, cutoff_date)
                                      /\ row.amount > 0
                  THEN Occurrences(payments_df, row) ELSE 0
        /\ \A i, j \in 1..Len(pays) :
              i < j => DateLe(pays[i].date, pays[j].date)
        /\ PaymentPeriods = 1..Cardinality(PaymentPeriods)
        /\ Cardinality(PaymentPeriods) <= Len(pays)
        /\ \A i \in PaymentPeriods :
              /\ periods[i].payment_date = pays[i].date
              /\ DEq(periods[i].payment_amount, DInt(pays[i].amount, -2))
        /\ \A i, j \in PaymentPeriods :
              i < j => DateLe(periods[i].payment_date, periods[j].payment_date)

\* The sheet has two qualifying rows, the later payment first, and the call
\* returned their two periods, the earlier payment's first.
C17_Witness ==
    /\ pc = "returned" /\ Len(payments_df) = 2 /\ Len(pays) = 2
    /\ DateLt(payments_df[2].date, payments_df[1].date)
    /\ Cardinality(PaymentPeriods) = 2
    /\ DateLt(periods[1].payment_date, periods[2].payment_date)

\* ------------------------------------------------------------------------
\*  Properties of the slices of compute_period_exact (SpecCalc)
\* ------------------------------------------------------------------------

\* The first and the last day of slice sl inside [start_date, end_date]:
\* start_date's day in its month, else 1; end_date's day in its month, else
\* the month's last day.
SliceStartDay(sl) ==
    IF <<sl.year, sl.month>> = <<start_date[1], start_date[2]>>
    THEN start_date[3] ELSE 1

SliceEndDay(sl) ==
    IF <<sl.year, sl.month>> = <<end_date[1], end_date[2]>>
    THEN end_date[3] ELSE days_in_month(sl.year, sl.month)

\* C21: every slice compute_period_exact appends has total_days equal to
\* the number of days of its month, days equal to end_day - start_day + 1,
\* and 1 <= days <= total_days.
C21_DaysWithinMonth ==
    fn = "exact" =>
        \A i \in 1..Len(results) :
            /\ results[i].total_days
                   = days_in_month(results[i].year, results[i].month)
            /\ results[i].days
                   = SliceEndDay(results[i]) - SliceStartDay(results[i]) + 1
            /\ 1 <= results[i].days
            /\ results[i].days <= results[i].total_days

\* compute_period_exact returned three slices: a single day of December (its
\* last), the whole of January, a part of February.
C21_Witness ==
    /\ fn = "exact" /\ cpc = "returned" /\ Len(results) = 3
    /\ results[1].days = 1
    /\ results[2].days = results[2].total_days
    /\ results[3].days > 1 /\ results[3].days < results[3].total_days

\* 1 + (cpi / 100 - 1) * days / total_days, cpi / 100 being the quotient
\* itself.
UnroundedFactor(sl) ==
    DAdd(DOne1,
         DMul(DSub(DDivInt(sl.cpi, 100), DOne1),
              DDivInt(DInt(sl.days, 0), sl.total_days)))

\* C22: the effective factor of every slice is 1 + (cpi/100 - 1) * days /
\* total_days with cpi/100 not rounded, and the slice of a month lying fully
\* inside the range has the factor cpi/100.
C22_FactorIsExact ==
    fn = "exact" =>
        \A i \in 1..Len(results) :
            /\ DEq(results[i].factor, UnroundedFactor(results[i]))
            /\ results[i].days = results[i].total_days
                  => DEq(results[i].factor, DDivInt(results[i].cpi, 100))

\* ------------------------------------------------------------------------
\*  Independence of the cases (SpecFilter)
\* ------------------------------------------------------------------------

\* The sheet with the rows of every other registration number removed.
OwnRows == SelectSeq(payments_df, LAMBDA row : row.reg = reg_num)

\* The balance before the i-th of the sorted rows, and the first day of its
\* period, from the case's own data.
RECURSIVE OwnBalance(_)
OwnBalance(i) ==
    IF i = 1 THEN base_amount
    ELSE DSub(OwnBalance(i - 1), PayAmount(pays[i - 1]))

OwnStart(i) == IF i = 1 THEN order_date ELSE NextDay(pays[i - 1].date)

\* The i-th period as the case's own data, the CPI table and the cut-off
\* give it: the period of the i-th sorted row, or the period without a
\* payment that follows the last row.
OwnPeriodAt(i, bal, start) ==
    IF i <= Len(pays)
    THEN PayPeriod(pays[i], bal, start, cutoff_date,
             compute_period_indexation(bal, start,
                 PayPeriodEnd(pays[i].date, cutoff_date), cpi_map).value)
    ELSE PlainPeriod(start, cutoff_date, bal,
             compute_period_indexation(bal, start, cutoff_date,
                                       cpi_map).value)

\* C23: the rows iterated are a sorted selection of the sheet with every
\* other registration number's rows removed, and every period emitted is the
\* one that these rows, order_date, base_amount, the CPI table and
\* cutoff_date give: rows of other registration numbers, whatever they are,
\* change nothing.
C23_OtherCasesIgnored ==
    pc \in {"nopay", "loop", "tail", "returned", "raised"} =>
        /\ pays \in SortedPays(OwnRows, reg_num, cutoff_date)
        /\ \A i \in 1..Len(periods) :
              periods[i] = OwnPeriodAt(i, OwnBalance(i), OwnStart(i))

\* The sheet holds a payment of the case and, before it, a payment of
\* another registration number that the date and amount filters would keep;
\* the call returned the period of the case's payment and a tail.
C23_Witness ==
    /\ pc = "returned" /\ Len(payments_df) = 2
    /\ payments_df[1].reg # reg_num /\ payments_df[1].amount > 0
    /\ DateLe(payments_df[1].date, cutoff_date)
    /\ payments_df[2].reg = reg_num
    /\ Len(pays) = 1 /\ Len(periods) = 2
    /\ ~DIsZero(periods[1].indexation) /\ ~DIsZero(periods[2].indexation)

\* ------------------------------------------------------------------------
\*  The totals of process_workbook (SpecBatch)
\* ------------------------------------------------------------------------

\* The natural number a limb sequence stands for.
RECURSIVE LimbsNat(_)
LimbsNat(c) == IF c = <<>> THEN 0 ELSE c[1] + Base * LimbsNat(Tail(c))

\* An amount with at most two decimal places, in hundredths.
Cents(d) ==
    (IF d.neg THEN -1 ELSE 1) * LimbsNat(MulPow10(d.c, d.e + 2))

\* The indexation of the first n periods of ps, summed in hundredths.
RECURSIVE CentsOfPeriods(_, _)
CentsOfPeriods(ps, n) ==
    IF n = 0 THEN 0 ELSE CentsOfPeriods(ps, n - 1) + Cents(ps[n].indexation)

\* The rows of main_df process_workbook has finished.
CasesDone ==
    IF bpc \in {"case", "in_case", "raised"} THEN bi - 1
    ELSE IF bpc \in {"write", "returned"} THEN Len(main_df) ELSE 0

\* C24: process_workbook has produced one total and one report for each row
\* of main_df finished so far, in the rows' order, and each total, in the
\* report and in the column's cell, is the sum of the indexation of the
\* periods compute_debt_periods returned for the row.
C24_TotalIsSumOfPeriods ==
    /\ [](/\ Len(new_index_col) = CasesDone
          /\ Len(pdf_files) = CasesDone
          /\ \A i \in 1..Len(pdf_files) :
                /\ pdf_files[i].name = main_df[i].reg
                /\ \A j \in 1..Len(pdf_files[i].periods) :
                      pdf_files[i].periods[j].indexation.e = -2
                /\ DEq(pdf_files[i].total_indexation,
                       DInt(CentsOfPeriods(pdf_files[i].periods,
                                           Len(pdf_files[i].periods)), -2))
                /\ DEq(new_index_col[i], pdf_files[i].total_indexation))
    /\ [][(bpc = "in_case" /\ bpc' # "raised" /\ bpc' # "in_case")
             => pdf_files' = Append(pdf_files,
                    [name |-> reg_num,
                     total_indexation |-> pdf_files'[Len(pdf_files')]
                                              .total_indexation,
                     periods |-> periods,
                     cutoff_date |-> effective_cutoff])]_vars

\* A batch of two cases of different registration numbers has returned: the
\* first case has two periods with a non-zero indexation each, and the two
\* totals differ.
C24_Witness ==
    /\ bpc = "returned" /\ Len(main_df) = 2
    /\ main_df[1].reg # main_df[2].reg
    /\ Len(pdf_files[1].periods) = 2
    /\ \A j \in 1..2 : ~DIsZero(pdf_files[1].periods[j].indexation)
    /\ ~DEq(new_index_col[1], new_index_col[2])

\* ------------------------------------------------------------------------
\*  The running balance of compute_debt_periods (Spec)
\* ------------------------------------------------------------------------

\* The payments of the first n periods, summed in hundredths.
RECURSIVE CentsPaid(_)
CentsPaid(n) ==
    IF n = 0 THEN 0 ELSE CentsPaid(n - 1) + Cents(periods[n].payment_amount)

\* C27: the first period's debt_before is base_amount, every period's
\* debt_before is base_amount minus the payments of the periods before it,
\* which is the debt_after_payment of the period before it, and the balance
\* the loop carries on is the last period's debt_after_payment.
C27_BalanceThreaded ==
    /\ \A i \in 1..Len(periods) :
          /\ Cents(periods[i].debt_before)
                = Cents(base_amount) - CentsPaid(i - 1)
          /\ i > 1 => Cents(periods[i].debt_before)
                         = Cents(periods[i - 1].debt_after_payment)
    /\ (Len(periods) >= 1 /\ pc \in {"loop", "tail", "returned"})
          => Cents(remaining) = Cents(Last(periods).debt_after_payment)
    /\ (Len(periods) = 0 /\ pc \in {"nopay", "loop", "raised"})
          => remaining = base_amount

\* Two payments on different dates, each with its period: the second
\* period opens with what the first payment left.
C27_Witness ==
    /\ pc = "returned" /\ Len(periods) = 2
    /\ periods[1].payment_date # NoDate /\ periods[2].payment_date # NoDate
    /\ DateLt(periods[1].payment_date, periods[2].payment_date)
    /\ Cents(periods[1].debt_before) = 10000
    /\ Cents(periods[2].debt_before) = 5000

\* ------------------------------------------------------------------------
\*  The two calculators compared (SpecCalc)
\* ------------------------------------------------------------------------

\* What the calculator that was not called returns for the call's arguments.
OtherCalculator ==
    IF fn = "exact"
    THEN compute_indexation_monthly(amount, start_date, end_date,
                                    cpi_map).value
    ELSE compute_period_exact(amount, start_date, end_date, cpi_map).total

\* C28: for amount > 0 and a range inside one calendar month,
\* compute_indexation_monthly and compute_period_exact return the same
\* amount.
C28_CalculatorsAgreeInMonth ==
    (/\ cpc = "returned" /\ DGtZero(amount)
     /\ DateLe(start_date, end_date)
     /\ MonthOf(start_date) = MonthOf(end_date))
    => DEq(cret, OtherCalculator)

\* ------------------------------------------------------------------------
\*  The days counted by compute_period_exact (SpecCalc)
\* ------------------------------------------------------------------------

\* The days of a common year before each month.
DaysBeforeMonth == <<0, 31, 59, 90, 120, 151, 181, 212, 243, 273, 304, 334>>

\* The number of the day d in the proleptic Gregorian calendar
\* (date.toordinal()).
Ordinal(d) ==
    LET y == d[1] - 1
        leap == (d[1] % 4 = 0 /\ d[1] % 100 # 0) \/ d[1] % 400 = 0
    IN  365 * y + (y \div 4) - (y \div 100) + (y \div 400)
        + DaysBeforeMonth[d[2]] + (IF leap /\ d[2] > 2 THEN 1 ELSE 0) + d[3]

\* The days of the first n slices, summed.
RECURSIVE DaysCounted(_)
DaysCounted(n) == IF n = 0 THEN 0 ELSE DaysCounted(n - 1) + results[n].days

\* C29: when compute_period_exact returns for amount > 0 and start_date <=
\* end_date, the days of its slices sum to the number of calendar days from
\* start_date to end_date, both included; while it loops, the days counted
\* so far are the days from start_date to the end of the last month visited
\* (none before the first pass).
C29_DaysSumToRange ==
    /\ (fn = "exact" /\ cpc = "returned" /\ DGtZero(amount)
           /\ DateLe(start_date, end_date))
          => DaysCounted(Len(results))
                = Ordinal(end_date) - Ordinal(start_date) + 1
    /\ (fn = "exact" /\ cpc = "loop")
          => DaysCounted(Len(results))
                = IF results = <<>> THEN 0
                  ELSE Ordinal(<<ym[1], ym[2], 1>>) - Ordinal(start_date)

\* compute_period_exact returned for 2023-12-15 .. 2024-02-15: 17, 31 and
\* 15 days.
C29_Witness ==
    /\ fn = "exact" /\ cpc = "returned"
    /\ start_date = <<2023, 12, 15>> /\ end_date = <<2024, 2, 15>>
    /\ Len(results) = 3
    /\ <<results[1].days, results[2].days, results[3].days>> = <<17, 31, 15>>

\* ------------------------------------------------------------------------
\*  The sign of the indexation (SpecCalcOrDebt)
\* ------------------------------------------------------------------------

\* Every month of the table from s's month to e's has a CPI value >= 100.
NoDeflation(s, e) ==
    \A m \in DOMAIN cpi_map :
        (MonthIndex(MonthOf(s)) <= MonthIndex(m)
            /\ MonthIndex(m) <= MonthIndex(MonthOf(e)))
        => DCmp(cpi_map[m], DInt(100, 0)) >= 0

\* C30: with a CPI value >= 100 in every month visited, no slice of
\* compute_period_exact has a negative increment, neither calculator returns
\* a negative amount, no period of compute_debt_periods has a negative
\* indexation, and the sum of the periods returned is not negative.
C30_NeverNegative ==
    /\ NoDeflation(start_date, end_date) =>
          /\ \A i \in 1..Len(results) : ~results[i].increment.neg
          /\ cpc = "returned" => ~cret.neg
    /\ \A i \in 1..Len(periods) :
          NoDeflation(periods[i].period_start, periods[i].period_end)
             => ~periods[i].indexation.neg
    /\ (pc = "returned"
          /\ \A i \in 1..Len(periods) :
                NoDeflation(periods[i].period_start, periods[i].period_end))
          => ~SumIndexation(periods, Len(periods)).neg

\* compute_period_exact returned two slices with a positive increment each,
\* for January and February with CPI values 100.845 and 100.84.
C30_Witness ==
    /\ fn = "exact" /\ cpc = "returned" /\ Len(results) = 2
    /\ NoDeflation(start_date, end_date)
    /\ \A i \in 1..2 : DGtZero(results[i].increment)
    /\ DGtZero(cret)

====
